---- MODULE Spec2Model ----
(***************************************************************************)
(* Model of the MACM model-to-graph compiler and of the validation         *)
(* orchestrators (MacmDatabaseChecker, MacmDatabaseCheckerV3) with their   *)
(* Neo4j connector.                                                        *)
(*                                                                         *)
(* A text (an error message, an exception text, a Cypher statement) is a   *)
(* sequence of tokens; a token is a string.  Concatenation of texts is     *)
(* \o, "x in text" is a test on the tokens of the text.                    *)
(***************************************************************************)
EXTENDS Integers, Sequences, FiniteSets, TLC

\* ------------------------------------------------------------------------
\* Bounds
\* ------------------------------------------------------------------------

\* largest number of rows one rule query returns
MaxRows == 2

\* ------------------------------------------------------------------------
\* Tokens of the texts the store and the code produce
\* ------------------------------------------------------------------------

EnvelopeTok == "{code: Neo.ClientError.Procedure.ProcedureCallFailed} {message: "

TrigHdrTok == "Error executing triggers {"

RteTok == "Failed to invoke procedure apoc.util.validate: Caused by: java.lang.RuntimeException: "

MeaningfulTok == "Asset type label validation failed for component_id: 2"

AbortTok == "The transaction has been terminated. Retry your operation in a new transaction"

SepTok == ", "

CloseTok == "}"

LabelToks ==
    {"01_check_asset_type_labels=", "02_check_hosting_chain=", "04_check_alternate_path_for_uses="}

\* the trigger name a label token carries (the text before its "=")
TrigName(tok) ==
    CASE tok = "01_check_asset_type_labels=" -> "01_check_asset_type_labels"
      [] tok = "02_check_hosting_chain=" -> "02_check_hosting_chain"
      [] OTHER -> "04_check_alternate_path_for_uses"

\* number of characters of a token that can appear in an extracted message
TokLen(tok) ==
    CASE tok = MeaningfulTok -> 54
      [] tok = AbortTok -> 78
      [] tok = SepTok -> 2
      [] tok = "/* no host */" -> 13
      [] tok = "bad type" -> 8
      [] OTHER -> 3

\* the exception text of a write rejected by the triggers of the store
TrigBlob ==
    << EnvelopeTok, TrigHdrTok, "01_check_asset_type_labels=", RteTok, MeaningfulTok,
       SepTok, "04_check_alternate_path_for_uses=", AbortTok, CloseTok, CloseTok >>

\* the exception text of a write rejected by a uniqueness constraint
ConstraintMsg == << "Node(0) already exists with label Component: constraint violation" >>

\* the exception text of a statement the store cannot parse
SyntaxMsg == << "Invalid input: expected CREATE" >>

\* the exception texts a store operation can raise
StoreErrors == {TrigBlob, ConstraintMsg, SyntaxMsg}

\* tokens whose lower-cased text contains "trigger"
TriggerToks == {TrigHdrTok}

\* tokens whose lower-cased text contains "constraint"
ConstraintToks == {"Node(0) already exists with label Component: constraint violation"}

\* tokens whose lower-cased text contains "cleanup error"
CleanupToks == {"Cleanup error: "}

HasTok(text, toks) == \E i \in 1..Len(text) : text[i] \in toks

\* ------------------------------------------------------------------------
\* MacmDatabaseChecker._extract_trigger_error
\* ------------------------------------------------------------------------

\* smallest element of a non-empty set of integers
MinOf(S) == CHOOSE x \in S : \A y \in S : x <= y

SumLen(text) ==
    LET RECURSIVE go(_)
        go(i) == IF i > Len(text) THEN 0 ELSE TokLen(text[i]) + go(i + 1)
    IN go(1)

\* text.strip() and the re.sub that removes trailing commas and braces:
\* trailing separators and closing braces are dropped
StripTrailing(text) ==
    LET RECURSIVE go(_)
        go(t) == IF t # <<>> /\ t[Len(t)] \in {SepTok, CloseTok}
                 THEN go(SubSeq(t, 1, Len(t) - 1)) ELSE t
    IN go(text)

\* positions where the lookahead of detailed_pattern matches (a separator
\* followed by a trigger label, the end of the text, a closing brace), seen
\* from position j
DetailedStops(msg, j) ==
    {k \in j..(Len(msg) + 1) :
        \/ k = Len(msg) + 1
        \/ msg[k] = CloseTok
        \/ msg[k] = SepTok /\ k < Len(msg) /\ msg[k + 1] \in LabelToks}

\* rule 1: re.search(detailed_pattern, error_message, re.DOTALL); the result
\* is <<trigger_name, error_text>>, or <<>> when the pattern does not match
DetailedMatch(msg) ==
    LET starts == {i \in 1..Len(msg) :
                      /\ msg[i] \in LabelToks
                      /\ \E j \in (i + 1)..Len(msg) : msg[j] = RteTok}
    IN IF starts = {} THEN <<>>
       ELSE LET i == MinOf(starts)
                j == MinOf({j \in (i + 1)..Len(msg) : msg[j] = RteTok})
                k == MinOf(DetailedStops(msg, j + 1))
            IN << TrigName(msg[i]), SubSeq(msg, j + 1, k - 1) >>

\* rule 2: trigger_pattern, the /* ... */ message that closes the trigger
\* envelope; none of the texts of the store carries a /* ... */ message
IsComment(tok) == tok \in {"/* no host */"}

\* group 2 of trigger_pattern and group 1 of runtime_pattern, stripped: the
\* text between the comment delimiters
CommentText(tok) == CASE tok = "/* no host */" -> "no host"

TriggerMatch(msg) ==
    LET starts == {i \in 1..Len(msg) :
                      /\ msg[i] = TrigHdrTok
                      /\ i + 1 <= Len(msg) /\ msg[i + 1] \in LabelToks
                      /\ \E j \in (i + 2)..(Len(msg) - 2) :
                            /\ msg[j] = RteTok
                            /\ IsComment(msg[j + 1])
                            /\ msg[j + 2] = CloseTok}
    IN IF starts = {} THEN <<>>
       ELSE LET i == MinOf(starts)
                j == MinOf({j \in (i + 2)..(Len(msg) - 2) :
                              msg[j] = RteTok /\ IsComment(msg[j + 1])
                                              /\ msg[j + 2] = CloseTok})
            IN << TrigName(msg[i + 1]), << CommentText(msg[j + 1]) >> >>

\* rule 3: runtime_pattern, any RuntimeException: /* ... */ fragment
RuntimeMatch(msg) ==
    LET starts == {j \in 1..(Len(msg) - 1) : msg[j] = RteTok /\ IsComment(msg[j + 1])}
    IN IF starts = {} THEN <<>> ELSE << CommentText(msg[MinOf(starts) + 1]) >>

\* rule 4: the code/message envelope and the closing braces are removed
Cleaned(msg) ==
    LET body == IF msg # <<>> /\ msg[1] = EnvelopeTok THEN Tail(msg) ELSE msg
        RECURSIVE go(_)
        go(t) == IF t # <<>> /\ t[Len(t)] = CloseTok
                 THEN go(SubSeq(t, 1, Len(t) - 1)) ELSE t
    IN go(body)

_extract_trigger_error(msg) ==
    LET d == DetailedMatch(msg)
        t == TriggerMatch(msg)
        r == RuntimeMatch(msg)
    IN IF d # <<>> /\ AbortTok \notin {d[2][x] : x \in 1..Len(d[2])} /\ SumLen(d[2]) > 20
       THEN StripTrailing(d[2]) \o << " (from trigger: ", d[1], ")" >>
       ELSE IF t # <<>> THEN t[2] \o << " (from trigger: ", t[1], ")" >>
       ELSE IF r # <<>> THEN r
       ELSE Cleaned(msg)

\* ------------------------------------------------------------------------
\* Texts of the checkers and of the connector
\* ------------------------------------------------------------------------

NoNodesMsg == << "Model has no nodes to validate" >>

NoRelsMsg == << "Model has no relationships" >>

FailedConnectMsg == << "Failed to connect to Neo4j database" >>

FailedWriteMsg == << "Failed to write model to Neo4j for reporting validation" >>

UnexpectedMsg(e) == << "Unexpected error during database validation: " >> \o e

AsyncMsg(e) == << "Error running async validation: " >> \o e

ConstraintFailedMsg(e) == << "MACM constraint validation failed: " >> \o e

CleanupIssueMsg(e) == << "Database cleanup issue: " >> \o e

CleanupErrorMsg(e) == << "Cleanup error: " >> \o e

\* str(e) of the AttributeError format_relationship_properties raises on a
\* ProtocolStack protocol (ProtocolStack declares no properties field)
AttrMsg == << "'ProtocolStack' object has no attribute 'properties'" >>

\* str(e) of the TypeError of Neo4jConnector(config): the class leaves the
\* abstract method delete_model of BaseConnector undefined
AbstractMsg ==
    << "Can't instantiate abstract class Neo4jConnector with abstract method delete_model" >>

\* str(e) of a session, transaction or driver call that lost the server
LostMsg == << "Couldn't connect to localhost:7687" >>

\* the exception texts of a call that opens a session or ends a transaction
ConnErrors == {LostMsg}

\* the exception texts the cleanup wipe can raise: the wipe is a write, the
\* triggers of the store see it as they see every write
CleanupErrors == {LostMsg, TrigBlob}

NoExc == <<>>

\* ------------------------------------------------------------------------
\* Rule queries of MacmDatabaseCheckerV3
\* ------------------------------------------------------------------------

\* the *.cypher files a queries directory can hold
QueryNames == {"a.cypher", "ab.cypher", "b.cypher"}

\* the characters of a file name, as code points (a = 97, b = 98, . = 46);
\* the common suffix "cypher" is left out
Chars(name) ==
    CASE name = "a.cypher" -> << 97, 46 >>
      [] name = "ab.cypher" -> << 97, 98, 46 >>
      [] name = "b.cypher" -> << 98, 46 >>

\* Python's order on strings: the first differing character decides, a proper
\* prefix comes first
LexLess(s, t) ==
    LET RECURSIVE go(_)
        go(i) == IF i > Len(t) THEN FALSE
                 ELSE IF i > Len(s) THEN TRUE
                 ELSE IF s[i] # t[i] THEN s[i] < t[i]
                 ELSE go(i + 1)
    IN go(1)

\* the list in the order glob gave it
Unsorted(names) == names

\* sorted(...) of a list of distinct file names
RECURSIVE Sorted(_)
Sorted(names) ==
    IF names = <<>> THEN <<>>
    ELSE LET S == {names[i] : i \in 1..Len(names)}
             m == CHOOSE x \in S : \A y \in S \ {x} : LexLess(Chars(x), Chars(y))
             rest == SelectSeq(names, LAMBDA x : x # m)
         IN << m >> \o Sorted(rest)

\* the orders in which glob can list the files of a directory
RECURSIVE Perms(_)
Perms(S) ==
    IF S = {} THEN { <<>> }
    ELSE UNION { { << x >> \o p : p \in Perms(S \ {x}) } : x \in S }

\* a result row is a dict, here the sequence of its <<key, value>> items
RowA == << << "component", "1" >> >>

RowB == << << "component", "2" >>, << "rule", "hosting" >> >>

\* the rows a query can return: up to MaxRows rows, of two kinds that take
\* turns, either kind first
RowLists ==
    { [i \in 1..n |-> IF (i % 2 = 1) = first THEN RowA ELSE RowB] :
        n \in 0..MaxRows, first \in BOOLEAN }

RECURSIVE SeqsUpTo(_, _)
SeqsUpTo(S, n) ==
    IF n = 0 THEN { <<>> }
    ELSE SeqsUpTo(S, n - 1) \cup
         { Append(q, x) : q \in { r \in SeqsUpTo(S, n - 1) : Len(r) = n - 1 }, x \in S }

\* what the store (or the file system) answers for one query file
Outcomes ==
    [kind : {"rows"}, rows : RowLists, err : {NoExc}]
    \cup [kind : {"fail"}, rows : { <<>> }, err : {SyntaxMsg}]
    \cup [kind : {"unreadable"}, rows : { <<>> }, err : {LostMsg}]

\* "; ".join(f"{k}: {v}" for k, v in r.items())
RowMsg(r) ==
    LET RECURSIVE go(_)
        go(i) == IF i > Len(r) THEN <<>>
                 ELSE (IF i > 1 THEN << "; " >> ELSE <<>>)
                      \o << r[i][1], ": ", r[i][2] >> \o go(i + 1)
    IN go(1)

ViolationMsg(name, r) == << "[", name, "] " >> \o RowMsg(r)

QueryErrorMsg(name, e) == << "Error running query ", name, ": " >> \o e

UnreadableMsg(name, e) == << "Could not read query file ", name, ": " >> \o e

\* the errors one query adds, in the order of its rows
RowErrors(name, rows) == [i \in 1..Len(rows) |-> ViolationMsg(name, rows[i])]

\* ------------------------------------------------------------------------
\* The graph entity model (core/models/base.py)
\*
\* A string of the model (a name, a type, a label, a value) is the sequence
\* of its characters, each a one-character string; None and the empty string
\* are both <<>> (the code only tests them for truth).  The characters of the
\* inputs hold no comma.  The literal pieces the compiler writes are tokens.
\* ------------------------------------------------------------------------

Digits == {"0", "1", "2", "3", "4", "5", "6", "7", "8", "9"}

Letters ==
    {"a", "b", "c", "d", "e", "f", "g", "h", "i", "j", "k", "l", "m", "n", "o", "p", "q",
     "r", "s", "t", "u", "v", "w", "x", "y", "z", "A", "B", "C", "D", "E", "F", "G", "H",
     "I", "J", "K", "L", "M", "N", "O", "P", "Q", "R", "S", "T", "U", "V", "W", "X", "Y",
     "Z"}

\* str.isdigit()
isdigit(str) == str # <<>> /\ \A i \in 1..Len(str) : str[i] \in Digits

DigitChar(d) ==
    CASE d = 0 -> "0" [] d = 1 -> "1" [] d = 2 -> "2" [] d = 3 -> "3" [] d = 4 -> "4"
      [] d = 5 -> "5" [] d = 6 -> "6" [] d = 7 -> "7" [] d = 8 -> "8" [] d = 9 -> "9"

\* str(n) of an integer
RECURSIVE IntToStr(_)
IntToStr(n) ==
    IF n < 0 THEN << "-" >> \o IntToStr(0 - n)
    ELSE IF n < 10 THEN << DigitChar(n) >>
    ELSE IntToStr(n \div 10) \o << DigitChar(n % 10) >>

\* self._component_id_map[key]: the last node whose str(component_id) is key,
\* 0 when the key is not in the map
IdMapIndex(nodes, key) ==
    LET hits == {i \in 1..Len(nodes) : IntToStr(nodes[i].component_id) = key}
    IN IF hits = {} THEN 0 ELSE CHOOSE i \in hits : \A j \in hits : j <= i

\* a rewriting whose map is keyed by the integer ids: no string is a key
ResolveEndpoint_int_keys(nodes, endpoint) == endpoint

\* the rewriting of one endpoint in ArchitectureModel.__init__
ResolveEndpoint(nodes, endpoint) ==
    IF isdigit(endpoint) /\ IdMapIndex(nodes, endpoint) # 0
    THEN nodes[IdMapIndex(nodes, endpoint)].name
    ELSE endpoint

\* ArchitectureModel.__init__: the constructed model of the given data
ArchitectureModel(data) ==
    [nodes |-> data.nodes,
     relationships |->
        [i \in 1..Len(data.relationships) |->
            [data.relationships[i] EXCEPT
                !.source = ResolveEndpoint(data.nodes, @),
                !.target = ResolveEndpoint(data.nodes, @)]]]

\* ------------------------------------------------------------------------
\* The statement compiler (core/utils/cypher.py)
\* ------------------------------------------------------------------------

CreateTok == "CREATE "

SingleSep == ", "

MultiSep == ",\n       "

NoNodesText == << "// No nodes to create" >>

NodePrefix == << "n", "o", "d", "e", "_" >>

\* a sanitizer that adds the prefix when any character is a digit
sanitize_node_name_any_digit(name) ==
    LET sanitized == [i \in 1..Len(name) |->
                        IF name[i] \in (Letters \cup Digits) \/ name[i] = "_"
                        THEN name[i] ELSE "_"]
    IN IF \E i \in 1..Len(sanitized) : sanitized[i] \in Digits
       THEN NodePrefix \o sanitized ELSE sanitized

\* sanitize_node_name
sanitize_node_name(name) ==
    LET replaced == [i \in 1..Len(name) |->
                        IF name[i] \in {" ", "-", "."} THEN "_" ELSE name[i]]
        sanitized == [i \in 1..Len(name) |->
                        IF replaced[i] \in (Letters \cup Digits) \/ replaced[i] = "_"
                        THEN replaced[i] ELSE "_"]
    IN IF sanitized # <<>> /\ sanitized[1] \in Digits
       THEN NodePrefix \o sanitized ELSE sanitized

\* str.split(sep) for a one-character separator: the list of the parts
RECURSIVE SplitChar(_, _)
SplitChar(str, sep) ==
    LET hits == {i \in 1..Len(str) : str[i] = sep}
    IN IF hits = {} THEN << str >>
       ELSE LET i == MinOf(hits)
            IN << SubSeq(str, 1, i - 1) >> \o SplitChar(SubSeq(str, i + 1, Len(str)), sep)

\* sep.join(parts)
RECURSIVE Join(_, _)
Join(parts, sep) ==
    IF parts = <<>> THEN <<>>
    ELSE IF Len(parts) = 1 THEN parts[1]
    ELSE parts[1] \o sep \o Join(Tail(parts), sep)

\* format_node_labels
format_node_labels(node) ==
    LET set == (IF node.primary_label # <<>> THEN << node.primary_label >> ELSE <<>>)
               \o (IF node.secondary_label # <<>> THEN << node.secondary_label >> ELSE <<>>)
        parts == SplitChar(node.type, ".")
        labels == IF set = <<>> /\ node.type # <<>>
                  THEN IF Len(parts) > 1 THEN << parts[1], parts[2] >> ELSE << node.type >>
                  ELSE set
    IN IF labels # <<>> THEN Join(labels, << ":" >>)
       ELSE << "C", "o", "m", "p", "o", "n", "e", "n", "t" >>

\* d[key] = value on a dict kept as the sequence of its <<key, value>> items:
\* a key that is there keeps its place, a new key goes last
DictSet(d, key, value) ==
    IF \E i \in 1..Len(d) : d[i][1] = key
    THEN [i \in 1..Len(d) |-> IF d[i][1] = key THEN << key, value >> ELSE d[i]]
    ELSE Append(d, << key, value >>)

Quoted(str) == << "'" >> \o str \o << "'" >>

\* the text of a property value: a string is quoted, anything else is str(value)
ValueText(v) == IF v.isstr THEN Quoted(v.str) ELSE IntToStr(v.int)

\* the loop over the items of an open properties map, keys with a prefix
RECURSIVE AddItems(_, _, _)
AddItems(d, items, prefix) ==
    IF items = <<>> THEN d
    ELSE AddItems(DictSet(d, prefix \o items[1][1], ValueText(items[1][2])),
                  Tail(items), prefix)

\* '{' + ', '.join(f"{key}: {value}" ...) + '}'
PropertyMap(d) ==
    << "{" >> \o Join([i \in 1..Len(d) |-> d[i][1] \o << ": " >> \o d[i][2]], << SingleSep >>)
    \o << "}" >>

\* format_node_properties
format_node_properties(node) ==
    LET base == << << << "component_id" >>, Quoted(IntToStr(node.component_id)) >>,
                   << << "name" >>, Quoted(node.name) >>,
                   << << "type" >>, Quoted(node.type) >> >>
        p1 == IF node.primary_label # <<>>
              THEN DictSet(base, << "primary_label" >>, Quoted(node.primary_label)) ELSE base
        p2 == IF node.secondary_label # <<>>
              THEN DictSet(p1, << "secondary_label" >>, Quoted(node.secondary_label)) ELSE p1
    IN PropertyMap(AddItems(p2, node.properties, <<>>))

\* the result of a call: the text it returns, or the text of the exception
\* it raises
Returned(text) == [ok |-> TRUE, text |-> text]

Raised(text) == [ok |-> FALSE, text |-> text]

NoStack ==
    [data_link_protocol |-> <<>>, network_protocol |-> <<>>, transport_protocol |-> <<>>,
     session_protocol |-> <<>>, presentation_protocol |-> <<>>, application_protocol |-> <<>>]

\* the fields format_relationship_properties writes for a ProtocolStack
\* before it reads the properties attribute of the stack
StackFields(stack) ==
    LET f1 == IF stack.application_protocol # <<>>
              THEN << << << "application_protocol" >>, Quoted(stack.application_protocol) >> >>
              ELSE <<>>
        f2 == IF stack.transport_protocol # <<>>
              THEN << << << "transport_protocol" >>, Quoted(stack.transport_protocol) >> >>
              ELSE <<>>
        f3 == IF stack.presentation_protocol # <<>>
              THEN << << << "presentation_protocol" >>, Quoted(stack.presentation_protocol) >> >>
              ELSE <<>>
        f4 == IF stack.network_protocol # <<>>
              THEN << << << "network_protocol" >>, Quoted(stack.network_protocol) >> >>
              ELSE <<>>
    IN f1 \o f2 \o f3 \o f4

\* format_relationship_properties; a ProtocolStack has no attribute
\* properties, reading it raises AttributeError
format_relationship_properties(relationship) ==
    LET protocol == relationship.protocol
        truthy == protocol.kind = "stack" \/ (protocol.kind = "str" /\ protocol.str # <<>>)
        fields == IF ~truthy THEN <<>>
                  ELSE IF protocol.kind = "stack" THEN StackFields(protocol.stack)
                  ELSE << << << "protocol" >>, Quoted(protocol.str) >> >>
        all == AddItems(fields, relationship.properties, <<>>)
    IN IF truthy /\ protocol.kind = "stack" THEN Raised(AttrMsg)
       ELSE IF all # <<>> THEN Returned(PropertyMap(all))
       ELSE Returned(<< "{", "}" >>)

\* node_var_map.get(name): the variable of the node called name, <<>> (None)
\* when no node has the name
VarOf(nodes, name) ==
    IF \E i \in 1..Len(nodes) : nodes[i].name = name
    THEN sanitize_node_name(name) ELSE <<>>

NodeStatement(node) ==
    << "(" >> \o sanitize_node_name(node.name) \o << ":" >> \o format_node_labels(node)
    \o << " " >> \o format_node_properties(node) \o << ")" >>

\* a loop that skips no relationship
Known_all(model) == model.relationships

\* the relationships the loop does not skip
Known(model) ==
    SelectSeq(model.relationships,
              LAMBDA rel : VarOf(model.nodes, rel.source) # <<>>
                           /\ VarOf(model.nodes, rel.target) # <<>>)

RelStatement(model, rel) ==
    << "(" >> \o VarOf(model.nodes, rel.source) \o << ")-[:" >> \o rel.type \o << " " >>
    \o format_relationship_properties(rel).text \o << "]->(" >>
    \o VarOf(model.nodes, rel.target) \o << ")" >>

\* all_statements = node_statements + relationship_statements
AllStatements(model) ==
    [i \in 1..Len(model.nodes) |-> NodeStatement(model.nodes[i])]
    \o [i \in 1..Len(Known(model)) |-> RelStatement(model, Known(model)[i])]

\* the multiline branch that starts its loop at the first statement
RenderMultiline_repeat(stmts) ==
    LET RECURSIVE go(_, _)
        go(result, i) == IF i > Len(stmts) THEN result
                         ELSE go(result \o << MultiSep >> \o stmts[i], i + 1)
    IN go(<< CreateTok >> \o stmts[1], 1)

\* the multiline branch: "CREATE " + the first statement, then the loop that
\* adds ",\n       " + stmt for every other statement
RenderMultiline(stmts) ==
    LET RECURSIVE go(_, _)
        go(result, i) == IF i > Len(stmts) THEN result
                         ELSE go(result \o << MultiSep >> \o stmts[i], i + 1)
    IN IF Len(stmts) = 1 THEN << CreateTok >> \o stmts[1]
       ELSE go(<< CreateTok >> \o stmts[1], 2)

\* "CREATE " + ", ".join(all_statements)
RenderSingle(stmts) == << CreateTok >> \o Join(stmts, << SingleSep >>)

\* architecture_model_to_cypher
architecture_model_to_cypher(model, format_style) ==
    LET known == Known(model)
        failing == {i \in 1..Len(known) : ~format_relationship_properties(known[i]).ok}
    IN IF model.nodes = <<>> THEN Returned(NoNodesText)
       ELSE IF failing # {} THEN format_relationship_properties(known[MinOf(failing)])
       ELSE IF format_style = "single" THEN Returned(RenderSingle(AllStatements(model)))
       ELSE Returned(RenderMultiline(AllStatements(model)))

\* ------------------------------------------------------------------------
\* State of one checker instance, its connector and the graph store
\* ------------------------------------------------------------------------

VARIABLES
    strategy,         \* "A": MacmDatabaseChecker, "B": MacmDatabaseCheckerV3
    pc,               \* the await validate_async is suspended at
    model,            \* the model of the current call: number of nodes, of
                      \* relationships, and whether a relationship that is
                      \* compiled carries a ProtocolStack
    errors,           \* BaseChecker.errors
    warnings,         \* BaseChecker.warnings
    connector,        \* TRUE when self.connector is set: the caller gave the
                      \* checker a connector (a concrete Neo4jConnector)
    connected,        \* Neo4jConnector.connected
    tml_errors,       \* the list errors of test_model_load
    exc,              \* the exception in flight in test_model_load
    success,          \* the first component of test_model_load's result
    qdir,             \* the queries directory: exists, files
    answers,          \* what each query file answers during the current call
    queue,            \* the query files the loop has still to visit
    violation_count,  \* the counter of the rule-query loop
    ops,              \* the operations the current call sent to the store
    store,            \* what the graph store holds: "pre" is data that was
                      \* there before the checker, "run" data a call wrote
    report,           \* the ValidationResult of the last finished call
    exit,             \* the return statement the last finished call left by
    dirty,            \* whether the checker held errors or warnings of an
                      \* earlier call when the current call began
    cleanup_error     \* the exception the cleanup wipe of the call raised

VARIABLES
    stage,            \* how far the request has come: the data are given, the
                      \* model is constructed
    raw,              \* the data ArchitectureModel is constructed from
    built,            \* the constructed ArchitectureModel
    out               \* what architecture_model_to_cypher gave for each style

cVars == << stage, raw, built, out >>

VARIABLES
    call,             \* a call of one function of the utilities: the function
                      \* and its argument
    ret               \* what the call returned, once it has returned

fVars == << call, ret >>

VARIABLES
    host,             \* the checkers of a process that serves several calls at
                      \* a time, each with its connector: where its call is,
                      \* its strategy, Neo4jConnector.connected, the driver of
                      \* the connector, the drivers it no longer refers to, what
                      \* the check of its call observed, whether close() returned
    graph             \* the checkers whose model the graph store holds

hVars == << host, graph >>

runVars == << strategy, pc, model, errors, warnings, connector, connected,
              tml_errors, exc, success, qdir, answers, queue, violation_count,
              ops, store, report, exit, dirty, cleanup_error >>

\* the models a call can be given
MaxNodes == 2

MaxRels == 1

Models == [nodes : 0..MaxNodes, relationships : 0..MaxRels, stack : BOOLEAN]

\* a relationship is compiled only between nodes
RunModels == {m \in Models : m.stack => (m.nodes > 0 /\ m.relationships > 0)}

NoModel == [nodes |-> 0, relationships |-> 0, stack |-> FALSE]

EmptySummary == [kind |-> "empty"]

NoReport == [valid |-> FALSE, errors |-> <<>>, warnings |-> <<>>, summary |-> EmptySummary]

NoAnswers == <<>>

\* a create_result that also takes the warnings for failures
create_result_strict(errs, warns, summary) ==
    [valid |-> Len(errs) = 0 /\ Len(warns) = 0, errors |-> errs, warnings |-> warns,
     summary |-> summary]

\* BaseChecker.create_result
create_result(errs, warns, summary) ==
    [valid |-> Len(errs) = 0, errors |-> errs, warnings |-> warns, summary |-> summary]

\* a reset that leaves the list as it is
reset_keeps(list) == list

\* BaseChecker.reset, applied to each of the two lists
reset(list) == <<>>

\* the step that follows a successful _ensure_connection
FirstStep == IF strategy = "A" THEN "A_begin" ELSE "B_write"

\* validate(): the synchronous wrapper, when validate_async raises (the
\* checker has to create its connector, the model has nodes)
WrapperFails ==
    /\ pc \in {"idle", "done", "raised"}
    /\ ~connector
    /\ \E m \in {x \in RunModels : x.nodes > 0} : model' = m
    /\ errors' = Append(reset(errors), AsyncMsg(AbstractMsg))
    /\ warnings' = reset(warnings)
    /\ report' = create_result(Append(reset(errors), AsyncMsg(AbstractMsg)), reset(warnings),
                               EmptySummary)
    /\ pc' = "done"
    /\ exit' = "wrapper"
    /\ ops' = <<>>
    /\ dirty' = (errors # <<>> \/ warnings # <<>>)
    /\ UNCHANGED << strategy, connector, connected, tml_errors, exc, success,
                    qdir, answers, queue, violation_count, store, cleanup_error, cVars, fVars, hVars >>

\* a call that also ends at once when the model has no relationship
StartRun_needs_relationships ==
    /\ pc \in {"idle", "done", "raised"}
    /\ ops' = <<>>
    /\ tml_errors' = <<>>
    /\ exc' = NoExc
    /\ success' = FALSE
    /\ queue' = <<>>
    /\ violation_count' = 0
    /\ answers' = NoAnswers
    /\ cleanup_error' = NoExc
    /\ dirty' = (errors # <<>> \/ warnings # <<>>)
    /\ \E m \in RunModels :
          /\ model' = m
          /\ IF m.nodes = 0 \/ m.relationships = 0
             THEN /\ errors' = Append(reset(errors), NoNodesMsg)
                  /\ warnings' = reset(warnings)
                  /\ report' = create_result(Append(reset(errors), NoNodesMsg),
                                             reset(warnings), EmptySummary)
                  /\ pc' = "done"
                  /\ exit' = "empty"
                  /\ UNCHANGED connector
             ELSE /\ errors' = reset(errors)
                  /\ warnings' = IF m.relationships = 0
                                 THEN Append(reset(warnings), NoRelsMsg)
                                 ELSE reset(warnings)
                  /\ report' = NoReport
                  /\ pc' = IF ~connector THEN "raised"
                           ELSE IF connected THEN FirstStep ELSE "connect"
                  /\ exit' = IF ~connector THEN "raised" ELSE "none"
                  /\ UNCHANGED connector
    /\ UNCHANGED << strategy, connected, qdir, store, cVars, fVars, hVars >>

\* validate_async up to its first await: reset, the checks on the model and
\* the synchronous part of _ensure_connection, which raises when it has to
\* create the connector (the exception leaves validate_async)
StartRun ==
    /\ pc \in {"idle", "done", "raised"}
    /\ ops' = <<>>
    /\ tml_errors' = <<>>
    /\ exc' = NoExc
    /\ success' = FALSE
    /\ queue' = <<>>
    /\ violation_count' = 0
    /\ answers' = NoAnswers
    /\ cleanup_error' = NoExc
    /\ dirty' = (errors # <<>> \/ warnings # <<>>)
    /\ \E m \in RunModels :
          /\ model' = m
          /\ IF m.nodes = 0
             THEN /\ errors' = Append(reset(errors), NoNodesMsg)
                  /\ warnings' = reset(warnings)
                  /\ report' = create_result(Append(reset(errors), NoNodesMsg),
                                             reset(warnings), EmptySummary)
                  /\ pc' = "done"
                  /\ exit' = "empty"
                  /\ UNCHANGED connector
             ELSE /\ errors' = reset(errors)
                  /\ warnings' = IF m.relationships = 0
                                 THEN Append(reset(warnings), NoRelsMsg)
                                 ELSE reset(warnings)
                  /\ report' = NoReport
                  /\ pc' = IF ~connector THEN "raised"
                           ELSE IF connected THEN FirstStep ELSE "connect"
                  /\ exit' = IF ~connector THEN "raised" ELSE "none"
                  /\ UNCHANGED connector
    /\ UNCHANGED << strategy, connected, qdir, store, cVars, fVars, hVars >>

\* a connection step that records the failure but goes on with the call
Connect_goes_on ==
    /\ pc = "connect"
    /\ ops' = Append(ops, "connect")
    /\ \/ /\ connected' = TRUE
          /\ UNCHANGED errors
       \/ /\ connected' = FALSE
          /\ errors' = Append(errors, FailedConnectMsg)
    /\ pc' = FirstStep
    /\ UNCHANGED << strategy, model, warnings, connector, tml_errors, exc, success,
                    qdir, answers, queue, violation_count, store, dirty, cleanup_error,
                    report, exit, cVars, fVars, hVars >>

\* _ensure_connection: await self.connector.connect()
Connect ==
    /\ pc = "connect"
    /\ ops' = Append(ops, "connect")
    /\ \/ /\ connected' = TRUE
          /\ pc' = FirstStep
          /\ UNCHANGED << errors, report, exit >>
       \/ /\ connected' = FALSE
          /\ errors' = Append(errors, FailedConnectMsg)
          /\ report' = create_result(Append(errors, FailedConnectMsg), warnings, EmptySummary)
          /\ pc' = "done"
          /\ exit' = "connect"
    /\ UNCHANGED << strategy, model, warnings, connector, tml_errors, exc, success,
                    qdir, answers, queue, violation_count, store, dirty, cleanup_error,
                    cVars, fVars, hVars >>

\* ------------------------------------------------------------------------
\* Strategy A: Neo4jConnector.test_model_load and the report built from it
\* ------------------------------------------------------------------------

\* the summary and the report MacmDatabaseChecker.validate_async builds from
\* the result (ok, errs) of test_model_load
NonCleanup(errs) == SelectSeq(errs, LAMBDA e : ~HasTok(e, CleanupToks))

SummaryA(ok, errs) ==
    IF ok THEN [kind |-> "success", nodes_tested |-> model.nodes,
                relationships_tested |-> model.relationships]
    ELSE [kind |-> "failed", nodes_tested |-> model.nodes,
          relationships_tested |-> model.relationships,
          error_count |-> Len(NonCleanup(errs))]

\* the loop over the errors of a failed load: <<errors, warnings>> after it
RECURSIVE Categorize(_, _, _)
Categorize(errs, es, ws) ==
    IF errs = <<>> THEN << es, ws >>
    ELSE LET error == Head(errs)
         IN IF HasTok(error, TriggerToks)
            THEN Categorize(Tail(errs), Append(es, _extract_trigger_error(error)), ws)
            ELSE IF HasTok(error, ConstraintToks)
            THEN Categorize(Tail(errs), Append(es, ConstraintFailedMsg(error)), ws)
            ELSE IF HasTok(error, CleanupToks)
            THEN Categorize(Tail(errs), es, Append(ws, CleanupIssueMsg(error)))
            ELSE Categorize(Tail(errs), es, ws)

ReportA(ok, errs, es, ws) ==
    LET c == IF ok THEN << es, ws >> ELSE Categorize(errs, es, ws)
    IN create_result(c[1], c[2], SummaryA(ok, errs))

aFrame == << strategy, model, connector, connected, qdir, answers, queue,
             violation_count, dirty, cVars, fVars, hVars >>

\* the session is opened, the statement compiled, the transaction begun
A_begin ==
    /\ pc = "A_begin"
    /\ \/ /\ ~model.stack
          /\ pc' = "A_run"
          /\ UNCHANGED << tml_errors, success >>
       \/ \E e \in ConnErrors \cup (IF model.stack THEN {AttrMsg} ELSE {}) :
             /\ tml_errors' = Append(tml_errors, e)
             /\ success' = FALSE
             /\ pc' = "A_cleanup"
    /\ UNCHANGED << aFrame, errors, warnings, exc, ops, store, report, exit, cleanup_error >>

\* await tx.run(cypher_query)
A_run ==
    /\ pc = "A_run"
    /\ ops' = Append(ops, "write")
    /\ \/ /\ pc' = "A_commit"
          /\ UNCHANGED << tml_errors, exc >>
       \/ \E e \in StoreErrors :
             /\ tml_errors' = Append(tml_errors, e)
             /\ exc' = e
             /\ pc' = "A_rollback"
    /\ UNCHANGED << aFrame, errors, warnings, success, store, report, exit, cleanup_error >>

\* await tx.commit()
A_commit ==
    /\ pc = "A_commit"
    /\ \/ /\ store' = store \cup {"run"}
          /\ pc' = "A_close"
          /\ UNCHANGED << tml_errors, exc >>
       \/ \E e \in ConnErrors :
             /\ tml_errors' = Append(tml_errors, e)
             /\ exc' = e
             /\ pc' = "A_rollback"
             /\ UNCHANGED store
    /\ UNCHANGED << aFrame, errors, warnings, success, ops, report, exit, cleanup_error >>

\* await tx.rollback() and the raise that follows it
A_rollback ==
    /\ pc = "A_rollback"
    /\ \/ UNCHANGED exc
       \/ \E e \in ConnErrors : exc' = e
    /\ pc' = "A_close"
    /\ UNCHANGED << aFrame, errors, warnings, tml_errors, success, ops, store, report, exit,
                    cleanup_error >>

\* finally: await tx.close(), then return True, errors or the outer except
A_close ==
    /\ pc = "A_close"
    /\ \E e \in {exc} \cup ConnErrors :
          /\ exc' = e
          /\ IF e = NoExc
             THEN /\ success' = TRUE
                  /\ UNCHANGED tml_errors
             ELSE /\ success' = FALSE
                  /\ tml_errors' = Append(tml_errors, e)
    /\ pc' = "A_cleanup"
    /\ UNCHANGED << aFrame, errors, warnings, ops, store, report, exit, cleanup_error >>

\* the finally of test_model_load, and the rest of validate_async
A_cleanup ==
    /\ pc = "A_cleanup"
    /\ ops' = Append(ops, "cleanup")
    /\ \E e \in {NoExc} \cup CleanupErrors :
          LET errs == IF e = NoExc THEN tml_errors
                      ELSE Append(tml_errors, CleanupErrorMsg(e))
              r == ReportA(success, errs, errors, warnings)
          IN /\ cleanup_error' = e
             /\ tml_errors' = errs
             /\ store' = IF e = NoExc THEN {} ELSE store
             /\ errors' = r.errors
             /\ warnings' = r.warnings
             /\ report' = r
    /\ pc' = "done"
    /\ exit' = "final"
    /\ UNCHANGED << aFrame, exc, success >>

\* ------------------------------------------------------------------------
\* Strategy B: MacmDatabaseCheckerV3.validate_async after the connection
\* ------------------------------------------------------------------------

SummaryB(count) ==
    [kind |-> "scan", nodes_tested |-> model.nodes,
     relationships_tested |-> model.relationships, violation_count |-> count]

SummaryUnexpected ==
    [kind |-> "unexpected", nodes_tested |-> model.nodes,
     relationships_tested |-> model.relationships]

bFrame == << strategy, model, connector, connected, tml_errors, exc, success, qdir,
             dirty, cVars, fVars, hVars >>

\* await self.connector.write_model(model); a False result ends the call
B_write ==
    /\ pc = "B_write"
    /\ \/ /\ ~model.stack
          /\ ops' = Append(ops, "write")
          /\ store' = store \cup {"run"}
          /\ pc' = "B_session"
          /\ UNCHANGED << errors, report, exit >>
       \/ \E sent \in (IF model.stack THEN {FALSE} ELSE BOOLEAN) :
             /\ ops' = IF sent THEN Append(ops, "write") ELSE ops
             /\ errors' = Append(errors, FailedWriteMsg)
             /\ report' = create_result(Append(errors, FailedWriteMsg), warnings, EmptySummary)
             /\ pc' = "done"
             /\ exit' = "write"
             /\ UNCHANGED store
    /\ UNCHANGED << bFrame, warnings, answers, queue, violation_count, cleanup_error >>

\* the session of the scan is opened and the queries directory is listed
B_session ==
    /\ pc = "B_session"
    /\ \/ \E e \in ConnErrors :
             /\ errors' = Append(errors, UnexpectedMsg(e))
             /\ report' = create_result(Append(errors, UnexpectedMsg(e)), warnings,
                                        SummaryUnexpected)
             /\ pc' = "done"
             /\ exit' = "unexpected"
             /\ UNCHANGED << warnings, answers, queue >>
       \/ /\ ~qdir.exists
          /\ warnings' = Append(warnings, << "Queries directory not found: neo4j/queries" >>)
          /\ pc' = "B_cleanup"
          /\ UNCHANGED << errors, report, exit, answers, queue >>
       \/ /\ qdir.exists
          /\ queue' \in { Sorted(listing) : listing \in Perms(qdir.files) }
          /\ answers' \in [qdir.files -> Outcomes]
          /\ pc' = IF qdir.files = {} THEN "B_cleanup" ELSE "B_query"
          /\ UNCHANGED << errors, warnings, report, exit >>
    /\ UNCHANGED << bFrame, violation_count, ops, store, cleanup_error >>

\* a loop that a failing query ends
B_query_break ==
    /\ pc = "B_query"
    /\ queue # <<>>
    /\ LET qf == Head(queue)
           a == answers[qf]
       IN /\ CASE a.kind = "unreadable" ->
                     /\ warnings' = Append(warnings, UnreadableMsg(qf, a.err))
                     /\ UNCHANGED << errors, violation_count, ops >>
               [] a.kind = "fail" ->
                     /\ errors' = Append(errors, QueryErrorMsg(qf, a.err))
                     /\ ops' = Append(ops, "query")
                     /\ UNCHANGED << warnings, violation_count >>
               [] a.kind = "rows" ->
                     /\ errors' = errors \o RowErrors(qf, a.rows)
                     /\ violation_count' = violation_count + Len(a.rows)
                     /\ ops' = Append(ops, "query")
                     /\ UNCHANGED warnings
          /\ queue' = IF a.kind = "fail" THEN <<>> ELSE Tail(queue)
          /\ pc' = IF a.kind = "fail" \/ Tail(queue) = <<>> THEN "B_cleanup" ELSE "B_query"
    /\ UNCHANGED << bFrame, answers, store, report, exit, cleanup_error >>

\* one turn of the loop over the query files
B_query ==
    /\ pc = "B_query"
    /\ queue # <<>>
    /\ LET qf == Head(queue)
           a == answers[qf]
       IN /\ CASE a.kind = "unreadable" ->
                     /\ warnings' = Append(warnings, UnreadableMsg(qf, a.err))
                     /\ UNCHANGED << errors, violation_count, ops >>
               [] a.kind = "fail" ->
                     /\ errors' = Append(errors, QueryErrorMsg(qf, a.err))
                     /\ ops' = Append(ops, "query")
                     /\ UNCHANGED << warnings, violation_count >>
               [] a.kind = "rows" ->
                     /\ errors' = errors \o RowErrors(qf, a.rows)
                     /\ violation_count' = violation_count + Len(a.rows)
                     /\ ops' = Append(ops, "query")
                     /\ UNCHANGED warnings
          /\ queue' = Tail(queue)
          /\ pc' = IF Tail(queue) = <<>> THEN "B_cleanup" ELSE "B_query"
    /\ UNCHANGED << bFrame, answers, store, report, exit, cleanup_error >>

\* the cleanup wipe in the session of the scan, then the summary and the report
B_cleanup ==
    /\ pc = "B_cleanup"
    /\ ops' = Append(ops, "cleanup")
    /\ \E e \in {NoExc} \cup CleanupErrors :
          LET ws == IF e = NoExc THEN warnings ELSE Append(warnings, CleanupIssueMsg(e))
          IN /\ cleanup_error' = e
             /\ warnings' = ws
             /\ store' = IF e = NoExc THEN {} ELSE store
             /\ report' = create_result(errors, ws, SummaryB(violation_count))
    /\ pc' = "done"
    /\ exit' = "final"
    /\ UNCHANGED << bFrame, errors, answers, queue, violation_count >>

\* ------------------------------------------------------------------------
\* Construction and compilation of a model
\* ------------------------------------------------------------------------

NoCall == [fn |-> "none", arg |-> <<>>]

NoRet == [done |-> FALSE, value |-> <<>>]

\* bounds of the models that are constructed and compiled
MaxCNodes == 2

MaxCRels == 2

NoData == [nodes |-> <<>>, relationships |-> <<>>]

NotRun == [ok |-> FALSE, text |-> <<>>]

NoOut == [single |-> NotRun, multiline |-> NotRun]

Str(v) == [isstr |-> TRUE, str |-> v, int |-> 0]

Int_(n) == [isstr |-> FALSE, str |-> <<>>, int |-> n]

NoProtocol == [kind |-> "none", str |-> <<>>, stack |-> NoStack]

StrProtocol(p) == [kind |-> "str", str |-> p, stack |-> NoStack]

StackProtocol(st) == [kind |-> "stack", str |-> <<>>, stack |-> st]

\* the nodes a request can hold: labelled and unlabelled, with and without
\* properties, with names that are numeric strings, with a repeated id, with
\* the empty name
NodePool ==
    { [component_id |-> 1, name |-> << "A" >>, type |-> << "H", "W", ".", "S" >>,
       primary_label |-> <<>>, secondary_label |-> <<>>, properties |-> <<>>],
      [component_id |-> 2, name |-> << "B" >>, type |-> << "O", "S" >>,
       primary_label |-> << "S", "L" >>, secondary_label |-> << "O", "S" >>,
       properties |-> << << << "k" >>, Str(<< "v" >>) >> >>],
      [component_id |-> 1, name |-> << "2" >>, type |-> << "H", "W", ".", "S" >>,
       primary_label |-> <<>>, secondary_label |-> <<>>, properties |-> <<>>],
      [component_id |-> 2, name |-> << "1" >>, type |-> <<>>,
       primary_label |-> <<>>, secondary_label |-> <<>>, properties |-> <<>>],
      [component_id |-> 13, name |-> << "a", " ", "b" >>, type |-> << "N", ".", "x", ".", "y" >>,
       primary_label |-> <<>>, secondary_label |-> <<>>,
       properties |-> << << << "cores" >>, Int_(4) >> >>],
      [component_id |-> 3, name |-> <<>>, type |-> << "O", "S" >>,
       primary_label |-> <<>>, secondary_label |-> <<>>, properties |-> <<>>] }

\* the relationships a request can hold: endpoints given by name, by id, by
\* a number that is no id, by a name no node has, by the empty name
RelPool ==
    { [source |-> << "A" >>, target |-> << "B" >>, type |-> << "h", "o", "s", "t", "s" >>,
       protocol |-> NoProtocol, properties |-> <<>>],
      [source |-> << "1" >>, target |-> << "2" >>, type |-> << "u", "s", "e", "s" >>,
       protocol |-> StrProtocol(<< "T", "C", "P" >>), properties |-> <<>>],
      [source |-> << "2" >>, target |-> << "9" >>, type |-> << "u", "s", "e", "s" >>,
       protocol |-> NoProtocol, properties |-> << << << "w" >>, Int_(5) >> >>],
      [source |-> << "A" >>, target |-> << "X" >>, type |-> << "u", "s", "e", "s" >>,
       protocol |-> NoProtocol, properties |-> <<>>],
      [source |-> << "1", "3" >>, target |-> << "A" >>, type |-> << "u", "s", "e", "s" >>,
       protocol |-> StackProtocol([NoStack EXCEPT !.application_protocol = << "H", "T", "T", "P" >>,
                                                  !.transport_protocol = << "T", "C", "P" >>]),
       properties |-> <<>>],
      [source |-> << "B" >>, target |-> << "1" >>, type |-> << "h", "o", "s", "t", "s" >>,
       protocol |-> NoProtocol, properties |-> <<>>],
      [source |-> << "a", " ", "b" >>, target |-> << "2" >>, type |-> << "u", "s", "e", "s" >>,
       protocol |-> StrProtocol(<<>>), properties |-> <<>>],
      [source |-> <<>>, target |-> << "A" >>, type |-> << "h", "o", "s", "t", "s" >>,
       protocol |-> NoProtocol, properties |-> <<>>] }

\* the relationship lists of a request: each relationship of the pool at most
\* once (the same node may be listed twice, which is how two nodes share a name)
RelLists ==
    { q \in SeqsUpTo(RelPool, MaxCRels) : \A i, j \in 1..Len(q) : q[i] = q[j] => i = j }

cFrame == << runVars, fVars, hVars >>

\* ArchitectureModel(**data)
Construct ==
    /\ stage = "data"
    /\ built' = ArchitectureModel(raw)
    /\ stage' = "model"
    /\ UNCHANGED << raw, out, cFrame >>

\* architecture_model_to_cypher(model, format_style="single")
CompileSingle ==
    /\ stage = "model"
    /\ out.single = NotRun
    /\ out' = [out EXCEPT !.single = architecture_model_to_cypher(built, "single")]
    /\ UNCHANGED << stage, raw, built, cFrame >>

\* architecture_model_to_cypher(model, format_style="multiline")
CompileMultiline ==
    /\ stage = "model"
    /\ out.multiline = NotRun
    /\ out' = [out EXCEPT !.multiline = architecture_model_to_cypher(built, "multiline")]
    /\ UNCHANGED << stage, raw, built, cFrame >>

InitCompile ==
    /\ strategy = "A"
    /\ pc = "off"
    /\ model = NoModel
    /\ errors = <<>>
    /\ warnings = <<>>
    /\ connector = FALSE
    /\ connected = FALSE
    /\ tml_errors = <<>>
    /\ exc = NoExc
    /\ success = FALSE
    /\ qdir = [exists |-> FALSE, files |-> {}]
    /\ answers = NoAnswers
    /\ queue = <<>>
    /\ violation_count = 0
    /\ ops = <<>>
    /\ store = {}
    /\ report = NoReport
    /\ exit = "none"
    /\ dirty = FALSE
    /\ cleanup_error = NoExc
    /\ stage = "data"
    /\ raw \in [nodes : SeqsUpTo(NodePool, MaxCNodes), relationships : RelLists]
    /\ built = NoData
    /\ out = NoOut
    /\ call = NoCall
    /\ ret = NoRet
    /\ host = <<>>
    /\ graph = {}

NextCompile ==
    \/ Construct
    \/ CompileSingle
    \/ CompileMultiline

\* ------------------------------------------------------------------------
\* Calls of the utilities: the sanitizer, the label formatter, the label
\* resolver (core/utils/catalog.py) and the extraction of a trigger message
\* ------------------------------------------------------------------------

\* longest name given to sanitize_node_name
MaxNameLen == 3

\* longest type of a node that is labelled
MaxTypeLen == 5

\* largest number of rows of the asset types catalog
MaxCatalogRows == 2

\* the characters of the names: letters, a digit, the three characters the
\* sanitizer replaces by name, another special character, the underscore
NameChars == {"a", "Z", "7", " ", "-", ".", "$", "_"}

Types == SeqsUpTo({"N", "."}, MaxTypeLen)

\* type.split(".", 1) when "." is in type, the whole type otherwise
FallbackLabels(type) ==
    LET hits == {i \in 1..Len(type) : type[i] = "."}
    IN IF hits = {}
       THEN [primary_label |-> type, secondary_label |-> <<>>]
       ELSE [primary_label |-> SubSeq(type, 1, MinOf(hits) - 1),
             secondary_label |-> SubSeq(type, MinOf(hits) + 1, Len(type))]

\* the columns assign_labels_to_node reads
Columns == {"AssetType", "Primary Label", "Secondary Label"}

\* a field of a line of the file: given, or left out by a line that is
\* shorter than the header
Given(str) == [given |-> TRUE, str |-> str]

Absent == [given |-> FALSE, str |-> <<>>]

CatalogRow(asset, primary, secondary) ==
    [c \in Columns |-> CASE c = "AssetType" -> asset
                         [] c = "Primary Label" -> primary
                         [] OTHER -> secondary]

\* the lines an asset types catalog can hold: a full row, a row with an
\* empty secondary label, a line with the asset type only, a line without
\* its last field
RowPool ==
    { CatalogRow(Given(<< "N", ".", "N" >>), Given(<< "P" >>), Given(<< "S" >>)),
      CatalogRow(Given(<< "N" >>), Given(<< "P" >>), Given(<<>>)),
      CatalogRow(Given(<< "N", ".", "N" >>), Absent, Absent),
      CatalogRow(Given(<< "N", ".", "N" >>), Given(<< "Q" >>), Absent) }

\* asset_types.csv: whether read_csv_file can read it, the columns of its
\* header, its lines
Catalogs ==
    [readable : {TRUE},
     columns : {Columns} \cup {Columns \ {c} : c \in Columns},
     rows : SeqsUpTo(RowPool, MaxCatalogRows)]
    \cup [readable : {FALSE}, columns : {Columns}, rows : { <<>> }]

\* row[col] of a row csv.DictReader gave: KeyError when the header has no
\* such column, None for a field the line left out
Field(catalog, row, col) ==
    IF col \notin catalog.columns THEN [kind |-> "KeyError", str |-> <<>>]
    ELSE IF ~row[col].given THEN [kind |-> "None", str |-> <<>>]
    ELSE [kind |-> "str", str |-> row[col].str]

\* assign_labels_to_node: the labels it leaves on a node of the given type
assign_labels_to_node(type, catalog) ==
    LET RECURSIVE scan(_)
        scan(i) ==
            IF i > Len(catalog.rows) THEN FallbackLabels(type)
            ELSE LET asset == Field(catalog, catalog.rows[i], "AssetType")
                     primary == Field(catalog, catalog.rows[i], "Primary Label")
                     secondary == Field(catalog, catalog.rows[i], "Secondary Label")
                 IN IF asset.kind = "KeyError" THEN FallbackLabels(type)
                    ELSE IF asset.kind = "str" /\ asset.str = type
                    THEN IF primary.kind = "KeyError" \/ secondary.kind = "KeyError"
                         THEN FallbackLabels(type)
                         ELSE [primary_label |-> primary.str, secondary_label |-> secondary.str]
                    ELSE scan(i + 1)
    IN IF ~catalog.readable THEN FallbackLabels(type) ELSE scan(1)

\* the sub-message of a trigger that rejected the write, and of a trigger
\* that was cut short by the rejection
RejectedBy(label) == << label, RteTok, MeaningfulTok >>

AbortedAt(label) == << label, AbortTok >>

\* the exception text that bundles the sub-messages in the given order
Blob(order) ==
    << EnvelopeTok, TrigHdrTok >> \o Join(order, << SepTok >>) \o << CloseTok, CloseTok >>

\* the texts with one rejecting trigger and one or more triggers cut short,
\* in every order
Blobs ==
    UNION { UNION { { Blob(order) :
                        order \in Perms({RejectedBy(m)} \cup {AbortedAt(l) : l \in A}) } :
                    A \in (SUBSET (LabelToks \ {m})) \ { {} } } :
            m \in LabelToks }

\* largest number of sub-messages of a text given to _extract_trigger_error
MaxSubs == 2

\* the texts given to _extract_trigger_error: up to MaxSubs labelled
\* sub-messages of different triggers (a long message, a notice of a trigger
\* cut short, a short /* ... */ message, a short message, a notice behind the
\* RuntimeException marker), in the envelope of a trigger error or bare; and
\* texts that are no trigger error
Texts ==
    LET subs(l) == { RejectedBy(l), AbortedAt(l), << l, RteTok, "/* no host */" >>,
                     << l, RteTok, "bad type" >>, << l, RteTok, AbortTok >> }
        lists == { q \in SeqsUpTo(UNION { subs(l) : l \in LabelToks }, MaxSubs) :
                     /\ q # <<>>
                     /\ \A i, j \in 1..Len(q) : q[i][1] = q[j][1] => i = j }
    IN { Blob(order) : order \in lists }
       \cup { Join(order, << SepTok >>) : order \in lists }
       \cup { ConstraintMsg, SyntaxMsg, << EnvelopeTok, "Invalid input: expected CREATE", CloseTok >> }

\* largest number of entries of an open properties map
MaxProps == 2

\* the lists of at most n entries of a pool, no key twice (a dict)
DictsUpTo(pool, n) ==
    { d \in SeqsUpTo(pool, n) : \A i, j \in 1..Len(d) : d[i][1] = d[j][1] => i = j }

\* the nodes given to format_node_properties: the entries of the open
\* properties map have a key of their own or a key that is also the name of
\* a field of the node
FormatNodes ==
    LET items == { << << "k" >>, Str(<< "v" >>) >>,
                   << << "cores" >>, Int_(4) >>,
                   << << "name" >>, Str(<< "Z" >>) >>,
                   << << "component_id" >>, Int_(9) >>,
                   << << "type" >>, Str(<< "T" >>) >>,
                   << << "primary_label" >>, Str(<< "X" >>) >> }
    IN [component_id : {1, 13}, name : { << "A" >> }, type : { << "N", ".", "x" >> },
        primary_label : { <<>>, << "S", "L" >> }, secondary_label : { <<>>, << "O", "S" >> },
        properties : DictsUpTo(items, MaxProps)]

\* the relationships given to format_relationship_properties: no protocol,
\* the empty string, a string, a ProtocolStack with each layer set or not
FormatRels ==
    LET items == { << << "w" >>, Int_(5) >>, << << "k" >>, Str(<< "v" >>) >>,
                   << << "z" >>, Str(<<>>) >> }
        stacks == [data_link_protocol : { <<>>, << "E" >> },
                   network_protocol : { <<>>, << "I", "P" >> },
                   transport_protocol : { <<>>, << "T", "C", "P" >> },
                   session_protocol : { <<>>, << "S" >> },
                   presentation_protocol : { <<>>, << "T", "L", "S" >> },
                   application_protocol : { <<>>, << "H", "T", "T", "P" >> }]
    IN [protocol : {NoProtocol, StrProtocol(<<>>), StrProtocol(<< "T", "C", "P" >>)}
                   \cup {StackProtocol(st) : st \in stacks},
        properties : DictsUpTo(items, MaxProps)]

Calls ==
    [fn : {"sanitize_node_name"}, arg : SeqsUpTo(NameChars, MaxNameLen)]
    \cup [fn : {"format_node_properties"}, arg : FormatNodes]
    \cup [fn : {"format_relationship_properties"}, arg : FormatRels]
    \cup [fn : {"format_node_labels"},
          arg : [type : Types, primary_label : { <<>>, << "S", "L" >> },
                 secondary_label : { <<>>, << "O", "S" >> }]]
    \cup [fn : {"assign_labels_to_node"}, arg : [type : Types, catalog : Catalogs]]
    \cup [fn : {"_extract_trigger_error"}, arg : Blobs \cup Texts]

fFrame == << call, runVars, cVars, hVars >>

Call_sanitize_node_name ==
    /\ call.fn = "sanitize_node_name"
    /\ ~ret.done
    /\ ret' = [done |-> TRUE, value |-> sanitize_node_name(call.arg)]
    /\ UNCHANGED fFrame

Call_format_node_labels ==
    /\ call.fn = "format_node_labels"
    /\ ~ret.done
    /\ ret' = [done |-> TRUE, value |-> format_node_labels(call.arg)]
    /\ UNCHANGED fFrame

Call_format_node_properties ==
    /\ call.fn = "format_node_properties"
    /\ ~ret.done
    /\ ret' = [done |-> TRUE, value |-> format_node_properties(call.arg)]
    /\ UNCHANGED fFrame

Call_format_relationship_properties ==
    /\ call.fn = "format_relationship_properties"
    /\ ~ret.done
    /\ ret' = [done |-> TRUE, value |-> format_relationship_properties(call.arg)]
    /\ UNCHANGED fFrame

Call_assign_labels_to_node ==
    /\ call.fn = "assign_labels_to_node"
    /\ ~ret.done
    /\ ret' = [done |-> TRUE,
               value |-> assign_labels_to_node(call.arg.type, call.arg.catalog)]
    /\ UNCHANGED fFrame

Call_extract_trigger_error ==
    /\ call.fn = "_extract_trigger_error"
    /\ ~ret.done
    /\ ret' = [done |-> TRUE, value |-> _extract_trigger_error(call.arg)]
    /\ UNCHANGED fFrame

InitFn ==
    /\ strategy = "A"
    /\ pc = "off"
    /\ model = NoModel
    /\ errors = <<>>
    /\ warnings = <<>>
    /\ connector = FALSE
    /\ connected = FALSE
    /\ tml_errors = <<>>
    /\ exc = NoExc
    /\ success = FALSE
    /\ qdir = [exists |-> FALSE, files |-> {}]
    /\ answers = NoAnswers
    /\ queue = <<>>
    /\ violation_count = 0
    /\ ops = <<>>
    /\ store = {}
    /\ report = NoReport
    /\ exit = "none"
    /\ dirty = FALSE
    /\ cleanup_error = NoExc
    /\ stage = "off"
    /\ raw = NoData
    /\ built = NoData
    /\ out = NoOut
    /\ call \in Calls
    /\ ret = NoRet
    /\ host = <<>>
    /\ graph = {}

NextFn ==
    \/ Call_sanitize_node_name
    \/ Call_format_node_labels
    \/ Call_format_node_properties
    \/ Call_format_relationship_properties
    \/ Call_assign_labels_to_node
    \/ Call_extract_trigger_error

\* ------------------------------------------------------------------------
\* Calls served at the same time: two checkers, each with its own connector,
\* against one graph store; a step is what a call does between two awaits
\* ------------------------------------------------------------------------

\* largest number of open drivers a connector no longer refers to
MaxLeaked == 1

Checkers == {1, 2}

\* validate_async up to the connection: reset, a model with nodes
H_validate(i) ==
    LET h == host[i]
    IN /\ h.pc = "idle"
       /\ host' = [host EXCEPT ![i] =
                      [h EXCEPT !.pc = IF h.connected THEN "write" ELSE "connect",
                                !.seen = [done |-> FALSE, data |-> {}],
                                !.closed = FALSE]]
       /\ UNCHANGED << graph, runVars, cVars, fVars >>

\* Neo4jConnector.connect: the driver is created (or its creation raises),
\* then the test query runs; a failure of either sets connected to False
\* and ends the call
H_connect(i) ==
    LET h == host[i]
    IN /\ h.pc = "connect"
       /\ \E made \in BOOLEAN, ok \in BOOLEAN :
             /\ ok => made
             /\ (made /\ h.driver = "open") => h.leaked < MaxLeaked
             /\ host' = [host EXCEPT ![i] =
                            [h EXCEPT !.driver = IF made THEN "open" ELSE h.driver,
                                      !.leaked = IF made /\ h.driver = "open"
                                                 THEN h.leaked + 1 ELSE h.leaked,
                                      !.connected = ok,
                                      !.pc = IF ok THEN "write" ELSE "idle"]]
       /\ UNCHANGED << graph, runVars, cVars, fVars >>

\* the creation statement: in strategy A the transaction of test_model_load,
\* whose triggers and constraints see the store and the model at the commit;
\* in strategy B write_model, whose failure ends the call
H_write(i) ==
    LET h == host[i]
    IN /\ h.pc = "write"
       /\ \E ok \in BOOLEAN :
             /\ graph' = IF ok THEN graph \cup {i} ELSE graph
             /\ host' = [host EXCEPT ![i] =
                            IF h.strategy = "A"
                            THEN [h EXCEPT !.seen = [done |-> TRUE, data |-> graph \cup {i}],
                                           !.pc = "cleanup"]
                            ELSE [h EXCEPT !.pc = IF ok THEN "scan" ELSE "idle"]]
       /\ UNCHANGED << runVars, cVars, fVars >>

\* the rule queries of strategy B read the store
H_scan(i) ==
    LET h == host[i]
    IN /\ h.pc = "scan"
       /\ host' = [host EXCEPT ![i] =
                      [h EXCEPT !.seen = [done |-> TRUE, data |-> graph], !.pc = "cleanup"]]
       /\ UNCHANGED << graph, runVars, cVars, fVars >>

\* MATCH (n) DETACH DELETE n, then the report
H_cleanup(i) ==
    LET h == host[i]
    IN /\ h.pc = "cleanup"
       /\ \E ok \in BOOLEAN : graph' = IF ok THEN {} ELSE graph
       /\ host' = [host EXCEPT ![i] = [h EXCEPT !.pc = "idle"]]
       /\ UNCHANGED << runVars, cVars, fVars >>

\* close(): disconnect() when the connector is connected; disconnect closes
\* the driver the connector refers to, unless driver.close() raises
H_close(i) ==
    LET h == host[i]
    IN /\ h.pc = "idle"
       /\ \E ok \in BOOLEAN :
             host' = [host EXCEPT ![i] =
                        IF h.connected /\ ok
                        THEN [h EXCEPT !.driver = "closed", !.connected = FALSE,
                                       !.closed = TRUE]
                        ELSE [h EXCEPT !.closed = TRUE]]
       /\ UNCHANGED << graph, runVars, cVars, fVars >>

InitHost ==
    /\ strategy = "A"
    /\ pc = "off"
    /\ model = NoModel
    /\ errors = <<>>
    /\ warnings = <<>>
    /\ connector = FALSE
    /\ connected = FALSE
    /\ tml_errors = <<>>
    /\ exc = NoExc
    /\ success = FALSE
    /\ qdir = [exists |-> FALSE, files |-> {}]
    /\ answers = NoAnswers
    /\ queue = <<>>
    /\ violation_count = 0
    /\ ops = <<>>
    /\ store = {}
    /\ report = NoReport
    /\ exit = "none"
    /\ dirty = FALSE
    /\ cleanup_error = NoExc
    /\ stage = "off"
    /\ raw = NoData
    /\ built = NoData
    /\ out = NoOut
    /\ call = NoCall
    /\ ret = NoRet
    /\ host \in [Checkers -> [pc : {"idle"}, strategy : {"A", "B"}, connected : {FALSE},
                               driver : {"none"}, leaked : {0},
                               seen : {[done |-> FALSE, data |-> {}]}, closed : {FALSE}]]
    /\ graph = {}

NextHost ==
    \E i \in Checkers :
        \/ H_validate(i)
        \/ H_connect(i)
        \/ H_write(i)
        \/ H_scan(i)
        \/ H_cleanup(i)
        \/ H_close(i)

\* ------------------------------------------------------------------------
\* Specification of the validation runs
\* ------------------------------------------------------------------------

QDirs == [exists : {TRUE}, files : SUBSET QueryNames] \cup [exists : {FALSE}, files : { {} }]

Init ==
    /\ strategy \in {"A", "B"}
    /\ pc = "idle"
    /\ model = NoModel
    /\ errors = <<>>
    /\ warnings = <<>>
    /\ connector \in BOOLEAN
    /\ connected = FALSE
    /\ tml_errors = <<>>
    /\ exc = NoExc
    /\ success = FALSE
    /\ qdir \in QDirs
    /\ answers = NoAnswers
    /\ queue = <<>>
    /\ violation_count = 0
    /\ ops = <<>>
    /\ store \in { {}, {"pre"} }
    /\ report = NoReport
    /\ exit = "none"
    /\ dirty = FALSE
    /\ cleanup_error = NoExc
    /\ stage = "off"
    /\ raw = NoData
    /\ built = NoData
    /\ out = NoOut
    /\ call = NoCall
    /\ ret = NoRet
    /\ host = <<>>
    /\ graph = {}

Next ==
    \/ StartRun
    \/ WrapperFails
    \/ Connect
    \/ A_begin
    \/ A_run
    \/ A_commit
    \/ A_rollback
    \/ A_close
    \/ A_cleanup
    \/ B_write
    \/ B_session
    \/ B_query
    \/ B_cleanup

vars == << runVars, cVars, fVars, hVars >>

Spec == Init /\ [][Next]_vars

SpecCompile == InitCompile /\ [][NextCompile]_vars

SpecFn == InitFn /\ [][NextFn]_vars

SpecHost == InitHost /\ [][NextHost]_vars

TypeOK ==
    /\ pc \in {"idle", "connect", "A_begin", "A_run", "A_commit", "A_rollback", "A_close",
               "A_cleanup", "B_write", "B_session", "B_query", "B_cleanup", "done",
               "raised", "off"}
    /\ store \subseteq {"pre", "run"}

\* ------------------------------------------------------------------------
\* Properties of the validation runs
\* ------------------------------------------------------------------------

Count(seq, x) == Cardinality({i \in 1..Len(seq) : seq[i] = x})

Done == pc = "done"

\* the finished call got past the connection step
PastConnection == Done /\ exit \in {"write", "unexpected", "final"}

\* C1: in both strategies a call that gets past the connection step sends
\* the cleanup wipe exactly once before its report is returned, on every exit
\* path (never twice, and once when the report is there)
C1_CleanupExactlyOnce ==
    /\ Count(ops, "cleanup") <= 1
    /\ PastConnection => Count(ops, "cleanup") = 1

\* C2: a call on a model with zero nodes returns valid = false, errors
\* exactly ["Model has no nodes to validate"], no warnings, and sends nothing
\* to the connector, whatever earlier calls left on the checker
C2_EmptyModel ==
    (Done /\ exit # "wrapper" /\ model.nodes = 0) =>
        /\ report.valid = FALSE
        /\ report.errors = << NoNodesMsg >>
        /\ report.warnings = <<>>
        /\ ops = <<>>

\* an empty model validated by a checker that still held the errors or
\* warnings of its first call
C2_Witness ==
    Done /\ exit = "empty" /\ model.nodes = 0 /\ dirty

\* the connection attempt of the finished call failed
ConnectFailed == Done /\ exit # "wrapper" /\ Count(ops, "connect") > 0 /\ ~connected

\* C3: when the connection attempt of a call on a model with nodes fails, the
\* report has the single error "Failed to connect to Neo4j database", valid =
\* false, and no write, rule query or cleanup wipe was sent
C3_ConnectFailure ==
    (ConnectFailed /\ model.nodes > 0) =>
        /\ report.errors = << FailedConnectMsg >>
        /\ report.valid = FALSE
        /\ Count(ops, "write") = 0
        /\ Count(ops, "query") = 0
        /\ Count(ops, "cleanup") = 0

\* a failed connection attempt on a checker that held errors of its first call
C3_Witness ==
    ConnectFailed /\ model.nodes > 0 /\ exit = "connect" /\ dirty

\* C4: every report has valid = true exactly when its errors list is empty
C4_ValidIffNoErrors ==
    Done => (report.valid <=> Len(report.errors) = 0)

\* a valid report that carries a warning, returned after the cleanup wipe
C4_Witness ==
    Done /\ exit = "final" /\ report.valid /\ Len(report.warnings) > 0

\* the write of the finished call of strategy A was rejected with the trigger
\* exception, and neither rollback nor close raised another one
TriggerRejected == Done /\ strategy = "A" /\ exit = "final" /\ exc = TrigBlob

\* C5: a write rejected with one trigger exception leaves exactly one entry
\* for the rejection in the list test_model_load returns and in the errors of
\* the report, with no duplicates
C5_SingleRejectionEntry ==
    TriggerRejected =>
        /\ Count(tml_errors, TrigBlob) = 1
        /\ Len(report.errors) = 1

\* the errors and the validity of the finished call had its cleanup succeeded
BaseReport ==
    IF strategy = "A"
    THEN ReportA(success, SubSeq(tml_errors, 1, Len(tml_errors) - 1), <<>>,
                 IF model.relationships = 0 THEN << NoRelsMsg >> ELSE <<>>)
    ELSE create_result(errors, <<>>, EmptySummary)

CleanupWarnings(ws) ==
    {i \in 1..Len(ws) : ws[i] # <<>> /\ ws[i][1] = "Database cleanup issue: "}

\* C6: a failure of the cleanup wipe is a warning and never an error: the
\* report has the errors and the validity of the same call with a successful
\* cleanup, and one warning for the cleanup failure
C6_CleanupFailureIsWarning ==
    (Done /\ cleanup_error # NoExc) =>
        /\ report.errors = BaseReport.errors
        /\ report.valid = BaseReport.valid
        /\ Cardinality(CleanupWarnings(report.warnings)) = 1

\* the finished call of strategy B ran the loop over the query files
Scanned == Done /\ strategy = "B" /\ exit = "final" /\ qdir.exists

\* the number of rows the queries of S returned
RECURSIVE SumRows(_)
SumRows(S) ==
    IF S = {} THEN 0
    ELSE LET x == CHOOSE y \in S : TRUE
         IN (IF answers[x].kind = "rows" THEN Len(answers[x].rows) ELSE 0) + SumRows(S \ {x})

\* the number of queries that failed to execute
FailCount == Cardinality({n \in qdir.files : answers[n].kind = "fail"})

\* C7: when every query returns rows or fails to execute, all queries are
\* run, errors has one entry per row plus one per failing query, and
\* violation_count counts the rows only
C7_PartialFailure ==
    (Scanned /\ \A n \in qdir.files : answers[n].kind # "unreadable") =>
        /\ Count(ops, "query") = Cardinality(qdir.files)
        /\ Len(report.errors) = SumRows(qdir.files) + FailCount
        /\ report.summary.violation_count = SumRows(qdir.files)

\* three queries: the first returns no row, the second two rows, the third
\* fails; three errors, violation_count 2
C7_Witness ==
    /\ Scanned
    /\ qdir.files = QueryNames
    /\ answers["a.cypher"].kind = "rows" /\ Len(answers["a.cypher"].rows) = 0
    /\ answers["ab.cypher"].kind = "rows" /\ Len(answers["ab.cypher"].rows) = 2
    /\ answers["b.cypher"].kind = "fail"
    /\ Len(report.errors) = 3
    /\ report.summary.violation_count = 2

\* the position of a query file in the lexical order of the directory
LexRank(name) ==
    1 + Cardinality({m \in qdir.files : LexLess(Chars(m), Chars(name))})

\* the errors the query file at position i and the files after it account for
RECURSIVE ErrorsFrom(_)
ErrorsFrom(i) ==
    IF i > Cardinality(qdir.files) THEN <<>>
    ELSE LET name == CHOOSE n \in qdir.files : LexRank(n) = i
             a == answers[name]
         IN (CASE a.kind = "rows" -> RowErrors(name, a.rows)
               [] a.kind = "fail" -> << QueryErrorMsg(name, a.err) >>
               [] OTHER -> <<>>)
            \o ErrorsFrom(i + 1)

\* C8: the rule queries run in the lexical order of their file names, and the
\* errors of the report are in that order, each query's rows in row order,
\* each entry tagged with the file name: the errors list is a function of the
\* rule set and of the answers of the store
C8_LexicalOrder ==
    /\ \A i, j \in 1..Len(queue) : i < j => LexLess(Chars(queue[i]), Chars(queue[j]))
    /\ Scanned =>
          /\ report.errors = ErrorsFrom(1)
          /\ \A i \in 1..Len(report.errors) : report.errors[i][2] \in qdir.files

\* three query files, the last two of which returned two rows each
C8_Witness ==
    /\ Scanned
    /\ qdir.files = QueryNames
    /\ answers["ab.cypher"].kind = "rows" /\ Len(answers["ab.cypher"].rows) = 2
    /\ answers["b.cypher"].kind = "rows" /\ Len(answers["b.cypher"].rows) = 2
    /\ answers["a.cypher"].kind = "fail"
    /\ Len(report.errors) = 5

\* C19: in both strategies validate_async returns a ValidationResult and
\* lets no exception reach its caller, whichever step of the connector fails
C19_NeverRaises == pc # "raised" /\ exit # "raised"

\* the call validate_async returned from was given nodes and no relationship
NoRelationshipsRun ==
    Done /\ exit \notin {"wrapper", "raised"} /\ model.nodes > 0 /\ model.relationships = 0

\* C20: in both strategies only a model without nodes ends the call before
\* the connection; a call on a model with nodes and no relationship goes on
\* to the connection, the write and the check or scan, its report holds the
\* warning "Model has no relationships" once, and the warning is no error
\* and leaves valid to the errors alone
C20_NoRelationshipsProceeds ==
    /\ (Done /\ exit = "empty") => model.nodes = 0
    /\ NoRelationshipsRun =>
          /\ Count(report.warnings, NoRelsMsg) = 1
          /\ Count(report.errors, NoRelsMsg) = 0
          /\ report.valid <=> report.errors = <<>>
          /\ exit \in {"connect", "write", "unexpected", "final"}
          /\ exit # "connect" => connected
          /\ exit = "final" => (Count(ops, "write") = 1 \/ ~success)

\* a valid report that holds the warning, after the write and the cleanup
C20_Witness ==
    /\ NoRelationshipsRun
    /\ exit = "final"
    /\ report.valid
    /\ report.errors = <<>>
    /\ Count(report.warnings, NoRelsMsg) = 1
    /\ Count(ops, "connect") = 1
    /\ Count(ops, "write") = 1
    /\ Count(ops, "cleanup") = 1

\* operation a comes nowhere after operation b among the operations of the call
NeverAfter(a, b) == \A i, j \in 1..Len(ops) : (i < j /\ ops[i] = b) => ops[j] # a

\* C24: the operations of a call follow the order connect, write, check or
\* scan, cleanup, report: a creation statement is sent only over a connected
\* connector, strategy B runs a rule query only after a write that reported
\* success, nothing is written or queried after the cleanup wipe, and a call
\* that sent a creation statement returns its report only after the wipe
C24_StepOrder ==
    /\ Count(ops, "write") > 0 => connected
    /\ NeverAfter("connect", "write") /\ NeverAfter("connect", "query")
    /\ NeverAfter("connect", "cleanup") /\ NeverAfter("write", "query")
    /\ NeverAfter("write", "cleanup") /\ NeverAfter("query", "cleanup")
    /\ Count(ops, "query") > 0 =>
          (strategy = "B" /\ Count(ops, "write") = 1 /\ "write" \in {ops[1], ops[2]})
    /\ (Done /\ exit = "write") => Count(ops, "query") = 0
    /\ (Done /\ Count(ops, "write") > 0) => Count(ops, "cleanup") > 0

\* the creation statement of the finished call of strategy A was rejected by
\* the store, and the cleanup wipe succeeded
WriteFailedA ==
    /\ Done /\ strategy = "A" /\ exit = "final" /\ ~success
    /\ Count(ops, "write") = 1
    /\ tml_errors # <<>> /\ tml_errors[1] \in StoreErrors
    /\ cleanup_error = NoExc

\* C25: no step is retried within a call: at most one connection attempt,
\* one creation statement, one run of each rule query, one cleanup wipe; and
\* a failed connection, a failed write and a failed query each add exactly
\* one entry to the report
C25_NoRetry ==
    /\ Count(ops, "connect") <= 1
    /\ Count(ops, "write") <= 1
    /\ Count(ops, "cleanup") <= 1
    /\ Count(ops, "query") <= Cardinality(qdir.files)
    /\ (Done /\ exit = "connect") => Len(report.errors) + Len(report.warnings) <= 2
    /\ (Done /\ exit = "connect") => report.errors = << FailedConnectMsg >>
    /\ (Done /\ exit = "write") => report.errors = << FailedWriteMsg >>
    /\ WriteFailedA => Len(report.errors) = 1
    /\ Scanned =>
          \A n \in qdir.files :
              answers[n].kind = "fail" =>
                  Count(report.errors, QueryErrorMsg(n, answers[n].err)) = 1

\* the load of the finished call of strategy A failed
LoadFailed == Done /\ strategy = "A" /\ exit = "final" /\ ~success

\* C26: strategy A never reports a failed load as valid: when
\* test_model_load returns success = false, whatever the text of the
\* exception, the report has valid = false, errors that are not empty, and
\* summary.error_count equal to the number of its errors
C26_FailedLoadInvalid ==
    LoadFailed =>
        /\ report.valid = FALSE
        /\ report.errors # <<>>
        /\ report.summary.error_count = Len(report.errors)

\* C28: the cleanup step deletes only what the call created: what the store
\* held before a call is still in the store after every step of the call,
\* in both strategies and on every exit path
C28_KeepsEarlierData == [][("pre" \in store) => ("pre" \in store')]_vars

IsPrefix(s, t) == Len(s) <= Len(t) /\ SubSeq(t, 1, Len(s)) = s

RECURSIVE SplitOn(_, _)
SplitOn(text, sep) ==
    LET hits == {i \in 1..Len(text) : text[i] = sep}
    IN IF hits = {} THEN << text >>
       ELSE LET i == MinOf(hits)
            IN << SubSeq(text, 1, i - 1) >> \o SplitOn(SubSeq(text, i + 1, Len(text)), sep)

\* both styles were compiled for a model with nodes, and returned a text
BothCompiled ==
    /\ stage = "model"
    /\ built.nodes # <<>>
    /\ out.single.ok
    /\ out.multiline.ok

\* C9 as stated: the single output split on ", " and the multiline output
\* split on its separator, both after "CREATE ", are the same sequence of
\* patterns
C9_SameSplit ==
    BothCompiled =>
        SplitOn(Tail(out.single.text), SingleSep) = SplitOn(Tail(out.multiline.text), MultiSep)

IsPattern(text) == Len(text) >= 2 /\ text[1] = "(" /\ text[Len(text)] = ")"

\* C9: both styles write "CREATE " and the same sequence of patterns; the
\* multiline output split on its separator gives the patterns, and the single
\* output is these patterns joined with ", " (which the property map of every
\* node pattern holds as well)
C9_SameStatements ==
    BothCompiled =>
        LET parts == SplitOn(Tail(out.multiline.text), MultiSep)
        IN /\ out.single.text[1] = CreateTok
           /\ out.multiline.text[1] = CreateTok
           /\ Tail(out.single.text) = Join(parts, << SingleSep >>)
           /\ Len(parts) >= Len(built.nodes)
           /\ \A i \in 1..Len(parts) : IsPattern(parts[i])

\* two nodes and a relationship between them, compiled in both styles
C9_Witness ==
    /\ BothCompiled
    /\ Len(built.nodes) = 2
    /\ Len(SplitOn(Tail(out.multiline.text), MultiSep)) = 3

\* the endpoints of relationship i, as given and as constructed
EndsOf(i) ==
    { << raw.relationships[i].source, built.relationships[i].source >>,
      << raw.relationships[i].target, built.relationships[i].target >> }

\* the names of the nodes whose component_id is written str
NamesOfId(str) ==
    {built.nodes[k].name : k \in {j \in 1..Len(built.nodes) :
                                     IntToStr(built.nodes[j].component_id) = str}}

\* str is a numeric string that is the component_id of a node
IsReference(str) == isdigit(str) /\ NamesOfId(str) # {}

\* C10 as stated: matching numeric endpoints are replaced by the node's name,
\* the other numeric endpoints are unchanged, and no endpoint of the
\* constructed model is a numeric string that equals a component_id
C10_NoNumericReference ==
    stage = "model" =>
        \A i \in 1..Len(raw.relationships) : \A e \in EndsOf(i) :
            /\ IsReference(e[1]) => e[2] \in NamesOfId(e[1])
            /\ (isdigit(e[1]) /\ ~IsReference(e[1])) => e[2] = e[1]
            /\ ~IsReference(e[2])

\* C10: matching numeric endpoints are replaced by the name of a node with
\* that component_id, every other endpoint is unchanged, and an endpoint of
\* the constructed model that is a numeric string equal to a component_id is
\* the name of the node the given endpoint referenced
C10_Resolved ==
    stage = "model" =>
        \A i \in 1..Len(raw.relationships) : \A e \in EndsOf(i) :
            /\ IsReference(e[1]) => e[2] \in NamesOfId(e[1])
            /\ ~IsReference(e[1]) => e[2] = e[1]
            /\ IsReference(e[2]) => (IsReference(e[1]) /\ e[2] \in NamesOfId(e[1]))

\* a relationship whose source was an id and became a name, and whose target
\* is a number that is no id
C10_Witness ==
    /\ stage = "model"
    /\ \E i \in 1..Len(raw.relationships) :
          /\ IsReference(raw.relationships[i].source)
          /\ built.relationships[i].source # raw.relationships[i].source
          /\ isdigit(raw.relationships[i].target)
          /\ ~IsReference(raw.relationships[i].target)
          /\ built.relationships[i].target = raw.relationships[i].target

\* the names of the nodes of the constructed model
NodeNames == {built.nodes[k].name : k \in 1..Len(built.nodes)}

\* a relationship one of whose endpoints is the name of no node
Dangling(rel) == rel.source \notin NodeNames \/ rel.target \notin NodeNames

\* the constructed model without its dangling relationships
WithoutDangling ==
    [built EXCEPT !.relationships = SelectSeq(built.relationships, LAMBDA rel : ~Dangling(rel))]

\* the relationship patterns of a compiled text: its parts that hold an arrow
ArrowParts(text) ==
    SelectSeq(SplitOn(Tail(text), MultiSep),
              LAMBDA part : \E i \in 1..Len(part) : part[i] = ")-[:")

\* C11: for a model with nodes, a relationship whose source or target is the
\* name of no node adds no relationship pattern and raises nothing: both
\* styles give what they give for the model without such relationships, and
\* a returned text holds at most one relationship pattern per relationship
\* that is not dangling
C11_DanglingSkipped ==
    (stage = "model" /\ built.nodes # <<>>) =>
        /\ out.single # NotRun =>
              out.single = architecture_model_to_cypher(WithoutDangling, "single")
        /\ out.multiline # NotRun =>
              /\ out.multiline = architecture_model_to_cypher(WithoutDangling, "multiline")
              /\ out.multiline.ok =>
                    Len(ArrowParts(out.multiline.text)) <= Len(WithoutDangling.relationships)

\* a dangling relationship before a relationship between two nodes, compiled
\* to a text with one relationship pattern
C11_Witness ==
    /\ stage = "model"
    /\ Len(built.nodes) = 2
    /\ Len(built.relationships) = 2
    /\ Dangling(built.relationships[1])
    /\ ~Dangling(built.relationships[2])
    /\ out.multiline.ok
    /\ Len(ArrowParts(out.multiline.text)) = 1
    /\ out.single.ok

\* C12: architecture_model_to_cypher is total: whatever the model holds
\* (no node, nodes without labels, relationships without protocol, with a
\* string protocol, with a ProtocolStack), each style returns a text and
\* raises nothing; the model without nodes gives the no-op marker
C12_Total ==
    stage = "model" =>
        /\ out.single # NotRun =>
              (out.single.ok /\ (built.nodes = <<>> => out.single.text = NoNodesText))
        /\ out.multiline # NotRun =>
              (out.multiline.ok /\ (built.nodes = <<>> => out.multiline.text = NoNodesText))

\* where the arrow of a relationship pattern is, 0 in a node pattern
ArrowAt(part) ==
    LET hits == {i \in 1..Len(part) : part[i] = ")-[:"}
    IN IF hits = {} THEN 0 ELSE MinOf(hits)

\* the pattern writes the property name of a node called name
HoldsName(part, name) ==
    \E j \in 1..(Len(part) - 1) :
        /\ part[j] = "name"
        /\ part[j + 1] = ": "
        /\ SubSeq(part, j + 2, j + 3 + Len(name)) = Quoted(name)

\* C13: for a model with nodes, a returned text is one creation command:
\* one node pattern per node, in model order, then one relationship pattern
\* per relationship whose endpoints are names of nodes, in model order
C13_NodesThenRelationships ==
    (stage = "model" /\ built.nodes # <<>> /\ out.multiline.ok) =>
        LET parts == SplitOn(Tail(out.multiline.text), MultiSep)
            n == Len(built.nodes)
            kn == WithoutDangling.relationships
        IN /\ out.multiline.text[1] = CreateTok
           /\ Count(out.multiline.text, CreateTok) = 1
           /\ Len(parts) = n + Len(kn)
           /\ \A i \in 1..n :
                 i <= Len(parts) =>
                    /\ IsPattern(parts[i])
                    /\ ArrowAt(parts[i]) = 0
                    /\ HoldsName(parts[i], built.nodes[i].name)
           /\ \A i \in 1..Len(kn) :
                 n + i <= Len(parts) =>
                    LET part == parts[n + i]
                        a == ArrowAt(part)
                    IN /\ IsPattern(part)
                       /\ a # 0
                       /\ SubSeq(part, a + 1, a + Len(kn[i].type)) = kn[i].type

\* ------------------------------------------------------------------------
\* Properties of the utilities
\* ------------------------------------------------------------------------

Returned_from(fn) == call.fn = fn /\ ret.done

\* C14: sanitize_node_name is idempotent: sanitizing the name it returned
\* returns that name, also for a name that got the prefix node_
C14_Idempotent ==
    Returned_from("sanitize_node_name") => sanitize_node_name(ret.value) = ret.value

\* a name that starts with a digit and holds a special character: it is
\* returned with the prefix
C14_Witness ==
    /\ Returned_from("sanitize_node_name")
    /\ Len(call.arg) = 3
    /\ call.arg[1] \in Digits
    /\ call.arg[2] = "$"
    /\ ret.value = NodePrefix \o << call.arg[1], "_", call.arg[3] >>

\* C15: sanitize_node_name returns a valid identifier for every string, the
\* empty string included: not empty, made of letters, digits and
\* underscores, not starting with a digit
C15_ValidIdentifier ==
    Returned_from("sanitize_node_name") =>
        /\ ret.value # <<>>
        /\ \A i \in 1..Len(ret.value) : ret.value[i] \in (Letters \cup Digits \cup {"_"})
        /\ ret.value[1] \notin Digits

\* C16: for a node with no label set, format_node_labels writes the labels
\* the fallback of the resolver derives from the type (split at the first
\* dot, the whole rest as secondary label), whatever the number of dots, and
\* Component for the empty type
C16_SameRuleAsResolver ==
    (/\ Returned_from("format_node_labels")
     /\ call.arg.primary_label = <<>>
     /\ call.arg.secondary_label = <<>>) =>
        LET type == call.arg.type
            f == FallbackLabels(type)
        IN ret.value =
              IF type = <<>> THEN << "C", "o", "m", "p", "o", "n", "e", "n", "t" >>
              ELSE IF \E i \in 1..Len(type) : type[i] = "."
              THEN f.primary_label \o << ":" >> \o f.secondary_label
              ELSE type

\* the first line of the catalog whose asset type is the type of the node, 0
\* when there is none or the catalog cannot be read
MatchingRow ==
    LET catalog == call.arg.catalog
        hits == {i \in 1..Len(catalog.rows) :
                    Field(catalog, catalog.rows[i], "AssetType") =
                        [kind |-> "str", str |-> call.arg.type]}
    IN IF ~catalog.readable \/ hits = {} THEN 0 ELSE MinOf(hits)

\* the line gives every column the resolver reads
WellFormed(i) ==
    \A c \in Columns : Field(call.arg.catalog, call.arg.catalog.rows[i], c).kind = "str"

\* C17: assign_labels_to_node leaves the labels of the matching row of the
\* catalog (no secondary label when the row's is empty); without a matching
\* row, with a catalog that cannot be read, or with a malformed matching row
\* it leaves the labels derived from the type
C17_AlwaysLabelled ==
    Returned_from("assign_labels_to_node") =>
        IF MatchingRow # 0 /\ WellFormed(MatchingRow)
        THEN LET row == call.arg.catalog.rows[MatchingRow]
             IN ret.value = [primary_label |-> row["Primary Label"].str,
                             secondary_label |-> row["Secondary Label"].str]
        ELSE ret.value = FallbackLabels(call.arg.type)

\* the label of the trigger whose sub-message carries the RuntimeException
RejectingLabel(msg) == msg[MinOf({i \in 1..Len(msg) : msg[i] = RteTok}) - 1]

\* C18: of a text with one rejecting trigger and one or more triggers cut
\* short, in any order, _extract_trigger_error returns the message of the
\* rejecting trigger tagged with the name of that trigger
C18_TaggedWithOwnTrigger ==
    (Returned_from("_extract_trigger_error") /\ call.arg \in Blobs) =>
        ret.value = << MeaningfulTok, " (from trigger: ", TrigName(RejectingLabel(call.arg)), ")" >>

\* the labels of the sub-messages of msg that carry the RuntimeException
\* marker: their positions
Marked(msg) ==
    {i \in 1..(Len(msg) - 1) : msg[i] \in LabelToks /\ msg[i + 1] = RteTok}

\* the text of the sub-message labelled at i, behind the marker and up to
\* the next labelled sub-message
MarkedText(msg, i) == SubSeq(msg, i + 2, MinOf(DetailedStops(msg, i + 2)) - 1)

\* rule 1 applies: the first sub-message with the marker has more than 20
\* characters of text and is no notice of a transaction that was terminated
Rule1(msg) ==
    /\ Marked(msg) # {}
    /\ LET text == MarkedText(msg, MinOf(Marked(msg)))
       IN SumLen(text) > 20 /\ \A x \in 1..Len(text) : text[x] # AbortTok

\* the sub-messages with a /* ... */ message that closes the trigger envelope
Enveloped(msg) ==
    {i \in Marked(msg) :
        /\ i + 3 <= Len(msg)
        /\ IsComment(msg[i + 2])
        /\ msg[i + 3] = CloseTok
        /\ \E h \in 1..(i - 1) : msg[h] = TrigHdrTok}

\* the /* ... */ messages behind a marker, anywhere in the text
Fragments(msg) == {j \in 1..(Len(msg) - 1) : msg[j] = RteTok /\ IsComment(msg[j + 1])}

\* C23: _extract_trigger_error applies its four rules in strict order and
\* returns what the first rule that applies gives: (1) the text of the first
\* sub-message with the RuntimeException marker, when it has more than 20
\* characters and is no notice of a terminated transaction, cut before the
\* next labelled sub-message, with a tag; else (2) the /* ... */ message in
\* the trigger envelope, tagged with the trigger it belongs to; else (3) a
\* /* ... */ message behind a marker, untagged; else (4) the text without
\* its code/message envelope; rule 1 never returns a notice of a terminated
\* transaction
C23_StrictPriority ==
    (Returned_from("_extract_trigger_error") /\ call.arg \in Texts) =>
        LET msg == call.arg
        IN /\ IF Rule1(msg)
              THEN LET text == MarkedText(msg, MinOf(Marked(msg)))
                   IN /\ Len(ret.value) = Len(text) + 3
                      /\ SubSeq(ret.value, 1, Len(text)) = text
                      /\ ret.value[Len(text) + 1] = " (from trigger: "
              ELSE IF Enveloped(msg) # {}
              THEN LET i == MinOf(Enveloped(msg))
                   IN ret.value = << CommentText(msg[i + 2]), " (from trigger: ",
                                     TrigName(msg[i]), ")" >>
              ELSE IF Fragments(msg) # {}
              THEN ret.value = << CommentText(msg[MinOf(Fragments(msg)) + 1]) >>
              ELSE ret.value = Cleaned(msg)
           /\ (\E x \in 1..Len(ret.value) : ret.value[x] = AbortTok) =>
                 (~Rule1(msg) /\ ret.value = Cleaned(msg))

\* the entries the relationship's own properties map adds, in its order
OwnEntries(items) == [i \in 1..Len(items) |-> << items[i][1], ValueText(items[i][2]) >>]

\* the fields of the protocol of a relationship, in the fixed order: the four
\* layers of a ProtocolStack that are written, or the one field protocol
ProtocolEntries(protocol) ==
    IF protocol.kind = "stack" THEN StackFields(protocol.stack)
    ELSE IF protocol.kind = "str" /\ protocol.str # <<>>
    THEN << << << "protocol" >>, Quoted(protocol.str) >> >>
    ELSE <<>>

\* C21: format_relationship_properties returns the map of its fields in a
\* fixed order: for a ProtocolStack the layers application, transport,
\* presentation, network that are set (never data_link, never session), for
\* a non-empty string the one field protocol, then the entries of the
\* relationship's own properties map in their order; {} when there is none
C21_FixedOrder ==
    Returned_from("format_relationship_properties") =>
        LET entries == ProtocolEntries(call.arg.protocol) \o OwnEntries(call.arg.properties)
        IN ret.value = Returned(IF entries = <<>> THEN << "{", "}" >> ELSE PropertyMap(entries))

\* the text of a property map up to and with its first three entries, for
\* the component_id, the name and the type of a node
OwnThree(node) ==
    << "{", "component_id", ": " >> \o Quoted(IntToStr(node.component_id))
    \o << SingleSep, "name", ": " >> \o Quoted(node.name)
    \o << SingleSep, "type", ": " >> \o Quoted(node.type)

\* C22: the map format_node_properties returns holds the keys component_id,
\* name and type once each, as its first three entries in that order, with
\* the component_id, the name and the type of the node as their values,
\* whatever the open properties map of the node holds
C22_OwnIdentity ==
    Returned_from("format_node_properties") =>
        /\ \A key \in {"component_id", "name", "type"} : Count(ret.value, key) = 1
        /\ Len(ret.value) >= Len(OwnThree(call.arg))
        /\ SubSeq(ret.value, 1, Len(OwnThree(call.arg))) = OwnThree(call.arg)

\* ------------------------------------------------------------------------
\* Properties of calls served at the same time, and of the connections
\* ------------------------------------------------------------------------

\* C27: calls served at the same time against one store do not interfere:
\* in every interleaving of their steps the rule queries or the trigger
\* check of a call observe exactly the model that call wrote, so the wipe of
\* one call never removes, and the write of one call never adds to, what
\* another call observes
C27_Isolated ==
    \A i \in Checkers : host[i].seen.done => host[i].seen.data = {i}

\* C29: a checker releases every connection it opened: once close() has
\* returned, every driver its connector created is closed (the driver of a
\* connection attempt whose test query failed included) and the connector is
\* not connected
C29_ReleasedAfterClose ==
    \A i \in Checkers :
        host[i].closed =>
            /\ host[i].driver # "open"
            /\ host[i].leaked = 0
            /\ ~host[i].connected

====
